---- MODULE Spec2Model ----
(***************************************************************************)
(* Grid-to-region streaming aggregation: the three scripts                 *)
(*   src/data/preprocess.py               (variant "preprocess")           *)
(*   src/data/process_global_averages.py  (variant "global")               *)
(*   src/data/process_country_details.py  (variant "details")              *)
(* modelled as one state machine whose variable `variant` says which       *)
(* script is running.  A run is: grid and map setup, the streaming loop    *)
(* over the GRIB messages, the final flush, the save.                      *)
(*                                                                         *)
(* Numbers are fixed-point integers in hundredths (3.0 is 300), so that    *)
(* np.sqrt has a computable model; a cell of a value array is a record     *)
(* [k |-> "num", x |-> n] or the not-a-number NaN.                         *)
(***************************************************************************)
EXTENDS Integers, Sequences, FiniteSets, TLC

VARIABLES
    variant,            \* which script runs
    run,                \* number of the current run of the script (1, 2, ...)
    pc,                 \* "setup" | "loop" | "done" | "aborted"
    grid,               \* first_grb.latlons() of this run: [shape, lats, lons]
    iso_map,            \* the RegionMap of this run: [shape, data]
    built,              \* TRUE iff this run called the spatial join
    cache,              \* the iso_map_<shape>.npy files: shape string -> map
    grbs,               \* the messages the iterator has yielded so far
    current_time_key,   \* current_time_key / curr_time
    timestep_buffer,    \* timestep_buffer / buffer
    flushed,            \* the buffers handed to the batch processor, in order
    all_results,        \* all_results / all_data (batch-mode sink)
    saved,              \* TRUE iff the run wrote its output table(s)
    exc,                \* the exception that ended the run: "none" | "read" |
                        \* "batch" | "save"
    open_files,         \* open_files: the region codes with an open handle
    closed,             \* the handles closed by the finally block
    files               \* era5_monthly_<country>.csv: country -> lines

vars == <<variant, run, pc, grid, iso_map, built, cache, grbs, current_time_key,
          timestep_buffer, flushed, all_results, saved, exc, open_files, closed,
          files>>

-----------------------------------------------------------------------------
(* Bounds of the model.                                                    *)
MaxLen == 3          \* messages per stream in the streaming-loop specification
MaxBatch == 2        \* messages per stream in the aggregation specification
MaxRunLen == 2       \* messages per stream in the repeated-runs specification
MaxRuns == 2         \* runs of the script in the repeated-runs specification

(* Program constant.                                                       *)
STRIDE == 5

Variants == {"preprocess", "global", "details"}

-----------------------------------------------------------------------------
(* Numbers and arrays.                                                     *)
NaN == [k |-> "nan", x |-> 0]
Num(n) == [k |-> "num", x |-> n * 100]
IsNaN(c) == c.k = "nan"

Abs(n) == IF n < 0 THEN -n ELSE n

\* Newton's iteration for the integer square root of n, from x >= sqrt(n).
RECURSIVE Newton(_, _)
Newton(n, x) ==
    LET y == (x + n \div x) \div 2
    IN  IF y >= x THEN x ELSE Newton(n, y)

\* np.sqrt(a ** 2 + b ** 2) on fixed-point numbers: the root, rounded down
\* to a hundredth.
Hypot(a, b) ==
    IF a = 0 /\ b = 0 THEN 0 ELSE Newton(a * a + b * b, Abs(a) + Abs(b))

Size(shape) == shape[1] * shape[2]

\* A value array as pygrib hands it over: a plain ndarray has masked = FALSE;
\* a numpy masked array has masked = TRUE and a mask bit per cell.
Array(shape, data) ==
    [shape |-> shape, data |-> data, masked |-> FALSE,
     mask |-> [i \in 1..Len(data) |-> FALSE]]
MaskedArray(shape, data, mask) ==
    [shape |-> shape, data |-> data, masked |-> TRUE, mask |-> mask]

\* numpy broadcasting of two 2-D shapes: <<>> when they are incompatible.
BroadcastShape(s, t) ==
    IF /\ (s[1] = t[1] \/ s[1] = 1 \/ t[1] = 1)
       /\ (s[2] = t[2] \/ s[2] = 1 \/ t[2] = 1)
    THEN << IF s[1] = 1 THEN t[1] ELSE s[1], IF s[2] = 1 THEN t[2] ELSE s[2] >>
    ELSE <<>>

\* The flat index into an array of shape s of cell k of the broadcast shape r.
BIndex(s, r, k) ==
    LET i == (k - 1) \div r[2]
        j == (k - 1) % r[2]
        si == IF s[1] = 1 THEN 0 ELSE i
        sj == IF s[2] = 1 THEN 0 ELSE j
    IN  si * s[2] + sj + 1

-----------------------------------------------------------------------------
(* Region Mask Builder.                                                    *)

\* The polygon dataset ne_110m_admin_0_countries.shp: one polygon (the set
\* of the points it contains) and two code fields per country.  Natural
\* Earth marks a country without an ISO code with '-99'.  The point
\* <<-170, 0>> lies in no polygon.
countries_gdf ==
    { [geometry |-> {<<10, 0>>, <<11, 0>>}, ISO_A3 |-> "AAA", ADM0_A3 |-> "AAA"],
      [geometry |-> {<<-10, 0>>}, ISO_A3 |-> "-99", ADM0_A3 |-> "BBB"],
      [geometry |-> {<<20, 0>>},  ISO_A3 |-> "-99", ADM0_A3 |-> "-99"] }

\* np.where(lons > 180, lons - 360, lons), one element.
NormLon(lon) == IF lon > 180 THEN lon - 360 ELSE lon

\* gpd.sjoin(points_gdf, countries_gdf, how='left'), one point: the
\* polygons that contain it (none: the joined code is missing).
SJoin(lon, lat) == {c \in countries_gdf : <<lon, lat>> \in c.geometry}

\* A faulty IsoCodeReplaced: '-99' is not replaced.
IsoCodeNotReplaced(lon, lat) ==
    LET hit == SJoin(NormLon(lon), lat)
    IN  IF hit = {} THEN "XXX" ELSE (CHOOSE c \in hit : TRUE).ISO_A3

\* preprocess.py: ISO_A3, '-99' replaced by 'XXX', missing filled with 'XXX'.
IsoCodeReplaced(lon, lat) ==
    LET hit == SJoin(NormLon(lon), lat)
    IN  IF hit = {} THEN "XXX"
        ELSE LET code == (CHOOSE c \in hit : TRUE).ISO_A3
             IN  IF code = "-99" THEN "XXX" ELSE code

\* process_global_averages.py, process_country_details.py: ADM0_A3, missing
\* filled with 'XXX', nothing replaced.
IsoCodeFilled(lon, lat) ==
    LET hit == SJoin(NormLon(lon), lat)
    IN  IF hit = {} THEN "XXX" ELSE (CHOOSE c \in hit : TRUE).ADM0_A3

\* x[::STRIDE, ::STRIDE] on a flattened 2-D array of the given shape.
SmallShape(shape) ==
    << (shape[1] + STRIDE - 1) \div STRIDE, (shape[2] + STRIDE - 1) \div STRIDE >>
Downsample(shape, data) ==
    LET small == SmallShape(shape)
    IN  [k \in 1..Size(small) |->
            data[((k - 1) \div small[2]) * STRIDE * shape[2]
                 + ((k - 1) % small[2]) * STRIDE + 1]]

\* create_country_mapping of preprocess.py.
create_country_mapping_iso(g) ==
    [shape |-> g.shape,
     data  |-> [k \in 1..Size(g.shape) |-> IsoCodeReplaced(g.lons[k], g.lats[k])]]

\* create_country_mapping of process_global_averages.py.
create_country_mapping_adm(g) ==
    [shape |-> g.shape,
     data  |-> [k \in 1..Size(g.shape) |-> IsoCodeFilled(g.lons[k], g.lats[k])]]

\* create_downsampled_map: the coordinates are sliced first, then joined.
\* Returns the map together with the sliced coordinates.
create_downsampled_map(g) ==
    LET small == SmallShape(g.shape)
        lats  == Downsample(g.shape, g.lats)
        lons  == Downsample(g.shape, g.lons)
    IN  [shape |-> small,
         data  |-> [k \in 1..Size(small) |-> IsoCodeFilled(lons[k], lats[k])],
         lats  |-> lats,
         lons  |-> lons]

-----------------------------------------------------------------------------
(* Derived Variable Calculator and Region Aggregator.                      *)
(* A message is [validDate, step, shortName, values, missingValue]; the    *)
(* attribute missingValue is <<>> when the message has none, else <<c>>.   *)

\* groupby(...) sorts by the region code.
SortedCodes == <<"-99", "AAA", "BBB", "XXX">>

\* x != y on floats: a not-a-number differs from everything.
NumNe(a, b) == IsNaN(a) \/ IsNaN(b) \/ a.x # b.x

RECURSIVE SumX(_, _)
SumX(vals, S) ==
    IF S = {} THEN 0
    ELSE LET i == CHOOSE i \in S : TRUE IN vals[i].x + SumX(vals, S \ {i})

\* Series.mean() of the cells idx of vals: not-a-number entries are skipped
\* (skipna), and the mean of nothing is not-a-number.  The mean is kept
\* exact, as the sum and the count.
Mean(vals, idx) ==
    LET num == {i \in idx : ~IsNaN(vals[i])}
    IN  IF num = {} THEN NaN
        ELSE [k |-> "mean", sum |-> SumX(vals, num), n |-> Cardinality(num)]

\* df.groupby('country')['value'].mean().to_dict() over the selected cells:
\* the region codes present, each with the mean of its cells.
GroupMeans(codes, vals, sel) ==
    LET present == {codes[i] : i \in sel}
    IN  [c \in present |-> Mean(vals, {i \in sel : codes[i] = c})]

\* np.ma.is_masked(values)
IsMaskedArr(a) == a.masked /\ \E i \in DOMAIN a.mask : a.mask[i]

\* calculate_country_averages of preprocess.py; mask_value is <<>> for None.
calculate_country_averages(values, map, mask_value) ==
    LET n == Len(values.data)
        valid_mask == [i \in 1..n |->
            /\ (IsMaskedArr(values) => ~values.mask[i])
            /\ (mask_value # <<>> =>
                   IF IsNaN(mask_value[1]) THEN ~IsNaN(values.data[i])
                   ELSE NumNe(values.data[i], mask_value[1]))]
        final_mask == {i \in 1..n : valid_mask[i] /\ map.data[i] # "XXX"}
    IN  IF final_mask = {} THEN [c \in {} |-> NaN]
        ELSE GroupMeans(map.data, values.data, final_mask)

\* np.sqrt(u ** 2 + v ** 2) with numpy broadcasting; the mask of the result
\* is the union of the masks.  shape <<>>: the operands do not broadcast.
WindSpeed(u, v) ==
    LET r == BroadcastShape(u.shape, v.shape)
    IN  IF r = <<>> THEN [shape |-> <<>>, data |-> <<>>, masked |-> FALSE, mask |-> <<>>]
        ELSE LET uc(k) == u.data[BIndex(u.shape, r, k)]
                 vc(k) == v.data[BIndex(v.shape, r, k)]
             IN  [shape  |-> r,
                  data   |-> [k \in 1..Size(r) |->
                                IF IsNaN(uc(k)) \/ IsNaN(vc(k)) THEN NaN
                                ELSE [k |-> "num",
                                      x |-> Hypot(uc(k).x, vc(k).x)]],
                  masked |-> u.masked \/ v.masked,
                  mask   |-> [k \in 1..Size(r) |->
                                u.mask[BIndex(u.shape, r, k)] \/ v.mask[BIndex(v.shape, r, k)]]]

\* np.maximum(values, 0): not-a-number stays, the mask stays.
ClampZero(a) ==
    [a EXCEPT !.data = [i \in DOMAIN a.data |->
        IF ~IsNaN(a.data[i]) /\ a.data[i].x < 0 THEN Num(0) ELSE a.data[i]]]

\* A faulty DictGet: the first message of a name is kept, not the last.
DictGetFirst(buffer, name) ==
    LET first == CHOOSE i \in 1..Len(buffer) :
                     /\ buffer[i].shortName = name
                     /\ \A j \in 1..(i - 1) : buffer[j].shortName # name
    IN  buffer[first]

\* vars_dict = {grb.shortName: grb for grb in buffer}: the last message of
\* each name, the names in the order of their first occurrence.
DictKeys(buffer) ==
    LET first(i) == \A j \in 1..(i - 1) : buffer[j].shortName # buffer[i].shortName
        F[i \in 0..Len(buffer)] ==
            IF i = 0 THEN <<>>
            ELSE IF first(i) THEN Append(F[i - 1], buffer[i].shortName) ELSE F[i - 1]
    IN  F[Len(buffer)]
DictGet(buffer, name) ==
    LET last == CHOOSE i \in 1..Len(buffer) :
                    /\ buffer[i].shortName = name
                    /\ \A j \in (i + 1)..Len(buffer) : buffer[j].shortName # name
    IN  buffer[last]

HasWind(buffer) ==
    /\ \E i \in 1..Len(buffer) : buffer[i].shortName = "10u"
    /\ \E i \in 1..Len(buffer) : buffer[i].shortName = "10v"

\* A faulty RemainingKeys: the wind components are not deleted.
UndeletedKeys(buffer) == DictKeys(buffer)

\* The keys left in vars_dict after the two wind components were deleted.
RemainingKeys(buffer) ==
    IF HasWind(buffer)
    THEN SelectSeq(DictKeys(buffer), LAMBDA n : n \notin {"10u", "10v"})
    ELSE DictKeys(buffer)

\* The values of a variable as aggregated: snow depth is clamped first.
FixedValues(name, grb) == IF name = "sde" THEN ClampZero(grb.values) ELSE grb.values

\* avgs.items(): the (region code, mean) pairs of a dict of averages, in
\* the order of its keys.
Items(avgs) ==
    LET F[i \in 0..Len(SortedCodes)] ==
            IF i = 0 THEN <<>>
            ELSE IF SortedCodes[i] \in DOMAIN avgs
                 THEN Append(F[i - 1], <<SortedCodes[i], avgs[SortedCodes[i]]>>)
                 ELSE F[i - 1]
    IN  F[Len(SortedCodes)]

RECURSIVE Concat(_)
Concat(ss) == IF ss = <<>> THEN <<>> ELSE Head(ss) \o Concat(Tail(ss))

\* process_timestep_buffer of preprocess.py.
process_timestep_buffer(buffer, map) ==
    LET wind ==
            IF HasWind(buffer)
            THEN LET u_grb == DictGet(buffer, "10u")
                     v_grb == DictGet(buffer, "10v")
                     speed_values == WindSpeed(u_grb.values, v_grb.values)
                     items == Items(calculate_country_averages(speed_values, map,
                                                               u_grb.missingValue))
                 IN  [i \in 1..Len(items) |->
                         [date |-> u_grb.validDate, step |-> u_grb.step,
                          variable |-> "10si", country |-> items[i][1],
                          value |-> items[i][2]]]
            ELSE <<>>
        names == RemainingKeys(buffer)
        rest(n) ==
            LET short_name == names[n]
                grb == DictGet(buffer, short_name)
                items == Items(calculate_country_averages(FixedValues(short_name, grb),
                                                          map, grb.missingValue))
            IN  [i \in 1..Len(items) |->
                    [date |-> grb.validDate, step |-> grb.step,
                     variable |-> short_name, country |-> items[i][1],
                     value |-> items[i][2]]]
    IN  wind \o Concat([n \in 1..Len(names) |-> rest(n)])

\* The masking and averaging of get_buffer_data (lines 43-48 and 65-70).
\* The boolean index is computed on the array's data; pandas turns a masked
\* element of the selected values into not-a-number.
global_averages(vals, map, missing) ==
    LET n == Len(vals.data)
        mask == {i \in 1..n :
                    /\ map.data[i] # "XXX"
                    /\ ~IsNaN(vals.data[i])
                    /\ (missing # <<>> => NumNe(vals.data[i], missing[1]))}
        frame == [i \in 1..n |-> IF vals.mask[i] THEN NaN ELSE vals.data[i]]
    IN  GroupMeans(map.data, frame, mask)

\* get_buffer_data of process_global_averages.py.  Indexing a value array
\* with a boolean mask of another shape raises; the exception leaves the
\* function, so no row of the batch is returned.
get_buffer_data(buffer, map) ==
    LET speed == WindSpeed(DictGet(buffer, "10u").values, DictGet(buffer, "10v").values)
        wind ==
            IF HasWind(buffer)
            THEN LET u_grb == DictGet(buffer, "10u")
                     items == Items(global_averages(speed, map, u_grb.missingValue))
                 IN  [i \in 1..Len(items) |->
                         [year |-> u_grb.validDate.year, month |-> u_grb.validDate.month,
                          country_code |-> items[i][1], value |-> items[i][2],
                          variable |-> "10si"]]
            ELSE <<>>
        names == RemainingKeys(buffer)
        rest(n) ==
            LET grb == DictGet(buffer, names[n])
                items == Items(global_averages(FixedValues(names[n], grb), map,
                                               grb.missingValue))
            IN  [i \in 1..Len(items) |->
                    [year |-> grb.validDate.year, month |-> grb.validDate.month,
                     country_code |-> items[i][1], value |-> items[i][2],
                     variable |-> names[n]]]
        raised ==
            \/ HasWind(buffer) /\ speed.shape # map.shape
            \/ \E n \in 1..Len(names) : DictGet(buffer, names[n]).values.shape # map.shape
    IN  IF raised THEN [raised |-> TRUE, rows |-> <<>>]
        ELSE [raised |-> FALSE, rows |-> wind \o Concat([n \in 1..Len(names) |-> rest(n)])]

-----------------------------------------------------------------------------
(* Streaming Output Sink of process_country_details.py.                    *)
(* A per-region file is a sequence of lines; `fs` below is the pair of the *)
(* open handles and the files: [open_files, files].                        *)

HeaderLine == [line |-> "year,month,variable_shortname,lat,long,value"]

\* A faulty IsNew: the header is written at every open.
IsNewAlways(fls, country) == TRUE

\* is_new = not os.path.exists(fpath)
IsNew(fls, country) == country \notin DOMAIN fls

\* One pass of the loop `for country, group in df.groupby('country')`:
\* open the target on its first write of the run, write the header if the
\* file is new, append the group's rows.
WriteGroup(fs, country, rows) ==
    LET opened == country \in fs.open_files
        is_new == IsNew(fs.files, country)
        before == IF country \in DOMAIN fs.files THEN fs.files[country] ELSE <<>>
        start  == IF ~opened /\ is_new THEN before \o <<HeaderLine>> ELSE before
    IN  [open_files |-> fs.open_files \cup {country},
         files |-> [c \in DOMAIN fs.files \cup {country} |->
                       IF c = country THEN start \o rows ELSE fs.files[c]]]

\* write_variable: downsample, drop the missing cells and the unassigned
\* cells, write each region's rows.  raised: the DataFrame constructor
\* refuses columns of different lengths.
write_variable(fs, map, year, month, var_name, data_grid) ==
    LET small == Downsample(data_grid.shape, data_grid.data)
        smask == Downsample(data_grid.shape, data_grid.mask)
        n     == Len(map.data)
        kept  == {i \in 1..n : ~(smask[i] \/ IsNaN(small[i])) /\ map.data[i] # "XXX"}
        RowsFor(country) ==
            LET F[i \in 0..n] ==
                    IF i = 0 THEN <<>>
                    ELSE IF i \in kept /\ map.data[i] = country
                         THEN Append(F[i - 1],
                                     [year |-> year, month |-> month, var |-> var_name,
                                      lat |-> map.lats[i], lon |-> map.lons[i],
                                      val |-> small[i]])
                         ELSE F[i - 1]
            IN  F[n]
        G[c \in 0..Len(SortedCodes)] ==
            IF c = 0 THEN fs
            ELSE IF \E i \in kept : map.data[i] = SortedCodes[c]
                 THEN WriteGroup(G[c - 1], SortedCodes[c], RowsFor(SortedCodes[c]))
                 ELSE G[c - 1]
    IN  IF Len(small) # n
        THEN [raised |-> TRUE, fs |-> fs]
        ELSE [raised |-> FALSE, fs |-> G[Len(SortedCodes)]]

\* process_buffer_to_files: the wind speed first, then the other variables
\* in the order of vars_dict.  An exception stops the batch where it is
\* raised: what was written before it stays written.
process_buffer_to_files(buffer, map, fs) ==
    LET ref_grb == buffer[1]
        year  == ref_grb.validDate.year
        month == ref_grb.validDate.month
        speed == WindSpeed(DictGet(buffer, "10u").values, DictGet(buffer, "10v").values)
        names == RemainingKeys(buffer)
        wind  == IF ~HasWind(buffer) THEN [raised |-> FALSE, fs |-> fs]
                 ELSE IF speed.shape = <<>> THEN [raised |-> TRUE, fs |-> fs]
                 ELSE write_variable(fs, map, year, month, "10si", speed)
        W[n \in 0..Len(names)] ==
            IF n = 0 THEN wind
            ELSE IF W[n - 1].raised THEN W[n - 1]
                 ELSE write_variable(W[n - 1].fs, map, year, month, names[n],
                                     FixedValues(names[n], DictGet(buffer, names[n])))
    IN  W[Len(names)]

-----------------------------------------------------------------------------
(* The inputs: grids, messages.                                            *)

Date1 == [year |-> 2000, month |-> 1]
Date2 == [year |-> 2000, month |-> 2]

\* The TimestepKeys of the streaming-loop inputs: two dates.
StreamKeys == {<<Date1, 0>>, <<Date2, 0>>}

ShortNames == {"10u", "10v", "sde"}

Wide == <<1, 6>>
Narrow == <<1, 1>>

\* first_grb.latlons(): two grids of one shape with different coordinates,
\* and a grid of another shape.  Longitudes run from 0 to 360.
GridA == [shape |-> Wide, lats |-> <<0, 0, 0, 0, 0, 0>>,
          lons |-> <<10, 190, 190, 190, 190, 350>>]
GridB == [shape |-> Wide, lats |-> <<0, 0, 0, 0, 0, 0>>,
          lons |-> <<20, 10, 190, 190, 190, 10>>]
GridC == [shape |-> Narrow, lats |-> <<0>>, lons |-> <<10>>]
Grids == {GridA, GridB, GridC}
LoopGrids == {GridA, GridB}

Message(key, name, values, missing) ==
    [validDate |-> key[1], step |-> key[2], shortName |-> name,
     values |-> values, missingValue |-> missing]

\* The messages of the streaming-loop specification: every key and name,
\* with a field of either shape.
WideField == Array(Wide, <<Num(3), Num(4), Num(0), Num(0), Num(0), Num(-1)>>)
NarrowField == Array(Narrow, <<Num(4)>>)
Messages ==
    {Message(k, n, v, <<>>) : k \in StreamKeys, n \in ShortNames,
                              v \in {WideField, NarrowField}}

\* The messages of the aggregation specification: one TimestepKey, every
\* name, fields whose first and last cells are valid, negative,
\* not-a-number or masked, with no missing-value attribute, with the
\* attribute 3.0, or with a not-a-number attribute.
AggKey == <<Date1, 1>>
AggFields ==
    {Array(Wide, <<a, Num(4), Num(4), Num(4), Num(4), b>>) :
        a \in {Num(3), Num(-1), NaN}, b \in {Num(3), NaN}}
    \cup
    {MaskedArray(Wide, <<Num(3), Num(4), Num(4), Num(4), Num(4), b>>,
                 <<TRUE, FALSE, FALSE, FALSE, FALSE, FALSE>>) : b \in {Num(3), NaN}}
AggMessages ==
    {Message(AggKey, n, v, m) : n \in ShortNames, v \in AggFields,
                                m \in {<<>>, <<Num(3)>>, <<NaN>>}}

\* The messages of the repeated-runs specification: snow depth at two
\* forecast steps of one date.
RunMessages == {Message(k, "sde", WideField, <<>>) : k \in {<<Date1, 0>>, <<Date1, 1>>}}

-----------------------------------------------------------------------------
(* The run.                                                                *)

None == <<>>

\* str(grb.validDate): 'YYYY-MM-...'
StrDate(d) == <<d.year, "-", d.month>>

\* (str(grb.validDate), grb.step)
MsgKey(grb) == <<StrDate(grb.validDate), grb.step>>

\* f"{lats.shape[0]}x{lats.shape[1]}"
GridShapeStr(shape) == <<shape[1], "x", shape[2]>>

\* A faulty ClosedOnExit: the targets are closed after the loop only.
ClosedAfterLoop(opened, raised) == IF raised THEN {} ELSE opened

\* try: ... finally: for f in open_files.values(): f.close()
\* The handles closed when the try block is left, normally or by an exception.
ClosedOnExit(opened, raised) == opened

Init ==
    /\ variant \in Variants
    /\ run = 1
    /\ pc = "setup"
    /\ grid = None
    /\ iso_map = None
    /\ built = FALSE
    /\ cache = [k \in {} |-> None]
    /\ grbs = <<>>
    /\ current_time_key = None
    /\ timestep_buffer = <<>>
    /\ flushed = <<>>
    /\ all_results = <<>>
    /\ saved = FALSE
    /\ exc = "none"
    /\ open_files = {}
    /\ closed = {}
    /\ files = [c \in {} |-> <<>>]

\* Grid and map setup.  preprocess.py loads the map from the cache file of
\* the grid's shape if there is one, else builds and stores it; the other
\* two scripts always build it and store nothing.
SetupOn(grids) ==
    /\ pc = "setup"
    /\ \E g \in grids :
        /\ grid' = g
        /\ IF variant = "preprocess"
           THEN LET iso_map_file == GridShapeStr(g.shape)
                IN  IF iso_map_file \in DOMAIN cache
                    THEN /\ iso_map' = cache[iso_map_file]
                         /\ built' = FALSE
                         /\ cache' = cache
                    ELSE /\ iso_map' = create_country_mapping_iso(g)
                         /\ built' = TRUE
                         /\ cache' = [f \in DOMAIN cache \cup {iso_map_file} |->
                                        IF f = iso_map_file
                                        THEN create_country_mapping_iso(g)
                                        ELSE cache[f]]
           ELSE /\ iso_map' = IF variant = "global" THEN create_country_mapping_adm(g)
                              ELSE create_downsampled_map(g)
                /\ built' = TRUE
                /\ cache' = cache
    /\ pc' = "loop"
    /\ UNCHANGED <<variant, run, grbs, current_time_key, timestep_buffer, flushed,
                   all_results, saved, exc, open_files, closed, files>>

Setup == SetupOn(LoopGrids)

\* preprocess.py line 162: a message whose values do not have the map's
\* shape is skipped.  The other two scripts have no such test.
Accepted(grb) == variant = "preprocess" => grb.values.shape = iso_map.shape

\* The test that starts a new timestep:
\*   preprocess.py:  if msg_key != current_time_key
\*   the others:     if curr_time and time_key != curr_time
NewTimestep(grb) ==
    IF variant = "preprocess" THEN MsgKey(grb) # current_time_key
    ELSE current_time_key # None /\ MsgKey(grb) # current_time_key

\* The test that flushes inside the loop: preprocess.py also asks for a
\* non-empty buffer.
FlushInLoop(grb) ==
    IF variant = "preprocess" THEN NewTimestep(grb) /\ timestep_buffer # <<>>
    ELSE NewTimestep(grb)

\* A faulty FlushAtEnd: the last buffer is never processed.
FlushAtEndSkipped == FALSE

\* After the loop: if timestep_buffer / if buffer
FlushAtEnd == timestep_buffer # <<>>

\* A faulty ClearedBuffer: the buffer is not cleared after a flush.
UnclearedBuffer(buffer) == buffer

\* timestep_buffer = [] / buffer = [] after a flush.
ClearedBuffer(buffer) == <<>>

\* A faulty PcAfterBatch: an exception of the batch processor is
\* swallowed and the loop goes on.
PcSwallow(raised) == "loop"

\* Neither script catches an exception inside the loop: an exception of the
\* batch processor leaves the loop and ends the run.
PcAfterBatch(raised) == IF raised THEN "aborted" ELSE "loop"

\* The batch processor of the running script on a buffer: whether it
\* raised, the accumulated rows after it, the sink's handles and files
\* after it.
Process(buffer) ==
    LET fs == [open_files |-> open_files, files |-> files]
    IN  CASE variant = "preprocess" ->
                [raised |-> FALSE,
                 all_results |-> all_results \o process_timestep_buffer(buffer, iso_map),
                 fs |-> fs]
          [] variant = "global" ->
                LET r == get_buffer_data(buffer, iso_map)
                IN  [raised |-> r.raised, all_results |-> all_results \o r.rows, fs |-> fs]
          [] variant = "details" ->
                LET r == process_buffer_to_files(buffer, iso_map, fs)
                IN  [raised |-> r.raised, all_results |-> all_results, fs |-> r.fs]

\* One pass of the loop body on the message grb.
LoopBody(grb) ==
    /\ grbs' = Append(grbs, grb)
    /\ IF ~Accepted(grb)
       THEN UNCHANGED <<pc, current_time_key, timestep_buffer, flushed, all_results,
                        exc, open_files, closed, files>>
       ELSE IF FlushInLoop(grb)
       THEN LET r == Process(timestep_buffer)
            IN  /\ flushed' = Append(flushed, timestep_buffer)
                /\ pc' = PcAfterBatch(r.raised)
                /\ exc' = IF r.raised THEN "batch" ELSE "none"
                /\ open_files' = r.fs.open_files
                /\ files' = r.fs.files
                /\ IF r.raised
                   THEN /\ closed' = ClosedOnExit(r.fs.open_files, TRUE)
                        /\ UNCHANGED <<current_time_key, timestep_buffer, all_results>>
                   ELSE /\ all_results' = r.all_results
                        /\ current_time_key' = MsgKey(grb)
                        /\ timestep_buffer' = Append(ClearedBuffer(timestep_buffer), grb)
                        /\ closed' = closed
       ELSE /\ current_time_key' = MsgKey(grb)
            /\ timestep_buffer' = Append(timestep_buffer, grb)
            /\ UNCHANGED <<pc, flushed, all_results, exc, open_files, closed, files>>
    /\ UNCHANGED <<variant, run, grid, iso_map, built, cache, saved>>

\* The loop reads a message of the streaming-loop inputs.
Read ==
    /\ pc = "loop"
    /\ Len(grbs) < MaxLen
    /\ \E grb \in Messages : LoopBody(grb)

\* The iterator raises instead of yielding a message (an unreadable
\* message): the exception leaves the loop; only process_country_details.py
\* has a finally block.
ReadError ==
    /\ pc = "loop"
    /\ pc' = "aborted"
    /\ exc' = "read"
    /\ closed' = ClosedOnExit(open_files, TRUE)
    /\ UNCHANGED <<variant, run, grid, iso_map, built, cache, grbs, current_time_key,
                   timestep_buffer, flushed, all_results, saved, open_files, files>>

\* The stream ends: the last buffer is processed, the targets are closed,
\* the table is saved.  preprocess.py saves nothing when there are no rows;
\* process_global_averages.py then fails on full_df['variable'].
EndOfStream ==
    /\ pc = "loop"
    /\ LET flush == FlushAtEnd
           r == IF flush THEN Process(timestep_buffer)
                ELSE [raised |-> FALSE, all_results |-> all_results,
                      fs |-> [open_files |-> open_files, files |-> files]]
           no_rows == variant = "global" /\ r.all_results = <<>>
       IN  /\ flushed' = IF flush THEN Append(flushed, timestep_buffer) ELSE flushed
           /\ open_files' = r.fs.open_files
           /\ files' = r.fs.files
           /\ closed' = ClosedOnExit(r.fs.open_files, r.raised)
           /\ IF r.raised \/ no_rows
              THEN /\ pc' = "aborted"
                   /\ exc' = IF r.raised THEN "batch" ELSE "save"
                   /\ all_results' = IF r.raised THEN all_results ELSE r.all_results
                   /\ saved' = FALSE
              ELSE /\ pc' = "done"
                   /\ exc' = "none"
                   /\ all_results' = r.all_results
                   /\ saved' = (variant # "details" /\ r.all_results # <<>>)
    /\ UNCHANGED <<variant, run, grid, iso_map, built, cache, grbs, current_time_key,
                   timestep_buffer>>

Next == Setup \/ Read \/ ReadError \/ EndOfStream

Spec == Init /\ [][Next]_vars

\* The aggregation specification: one or two messages of one timestep with
\* fields that have invalid cells, on a wide grid.
AggSetup == SetupOn({GridB})

AggRead ==
    /\ pc = "loop"
    /\ Len(grbs) < MaxBatch
    /\ \E grb \in AggMessages : LoopBody(grb)

NextAgg == AggSetup \/ AggRead \/ EndOfStream

SpecAgg == Init /\ [][NextAgg]_vars

\* The repeated-runs specification: the script is run again and again on
\* the same directories; the cache files and the per-region files stay.
RunSetup == SetupOn(Grids)

RunRead ==
    /\ pc = "loop"
    /\ Len(grbs) < MaxRunLen
    /\ \E grb \in RunMessages : LoopBody(grb)

NewRun ==
    /\ pc \in {"done", "aborted"}
    /\ run < MaxRuns
    /\ run' = run + 1
    /\ pc' = "setup"
    /\ grid' = None
    /\ iso_map' = None
    /\ built' = FALSE
    /\ grbs' = <<>>
    /\ current_time_key' = None
    /\ timestep_buffer' = <<>>
    /\ flushed' = <<>>
    /\ all_results' = <<>>
    /\ saved' = FALSE
    /\ exc' = "none"
    /\ open_files' = {}
    /\ closed' = {}
    /\ UNCHANGED <<variant, cache, files>>

NextRuns == RunSetup \/ RunRead \/ ReadError \/ EndOfStream \/ NewRun

SpecRuns == Init /\ [][NextRuns]_vars

-----------------------------------------------------------------------------
(* Properties of the streaming loop.                                       *)

Terminal == pc \in {"done", "aborted"}

\* All messages of one TimestepKey are contiguous in the stream s.
Contiguous(s) ==
    \A i, j \in 1..Len(s) :
        i < j /\ MsgKey(s[i]) = MsgKey(s[j]) =>
            \A k \in i..j : MsgKey(s[k]) = MsgKey(s[i])

\* The messages of the stream read so far that the loop did not skip.
AcceptedMsgs == SelectSeq(grbs, Accepted)

\* The distinct keys of a sequence of messages, in the order of their first
\* occurrence.
KeysInOrder(s) ==
    LET F[i \in 0..Len(s)] ==
            IF i = 0 THEN <<>>
            ELSE IF \E j \in 1..(i - 1) : MsgKey(s[j]) = MsgKey(s[i])
                 THEN F[i - 1] ELSE Append(F[i - 1], MsgKey(s[i]))
    IN  F[Len(s)]

\* One batch per distinct key of s: the messages of that key, in the order
\* of s; the batches in the order of s.
Groups(s) ==
    LET keys == KeysInOrder(s)
    IN  [n \in 1..Len(keys) |-> SelectSeq(s, LAMBDA m : MsgKey(m) = keys[n])]

IsPrefix(s, t) == Len(s) <= Len(t) /\ \A i \in 1..Len(s) : s[i] = t[i]

\* C1 as stated: after the loop has consumed a contiguous stream, one batch
\* was handed downstream per distinct key of the stream, each holding the
\* accepted messages of its key.
C1_OneBatchPerStreamKey ==
    pc = "done" /\ Contiguous(grbs) =>
        /\ Len(flushed) = Len(KeysInOrder(grbs))
        /\ \A n \in 1..Len(flushed) :
              flushed[n] = SelectSeq(AcceptedMsgs,
                                     LAMBDA m : MsgKey(m) = KeysInOrder(grbs)[n])

\* C1 as amended: for a contiguous stream the batches handed downstream
\* are, in stream order, the groups of the accepted messages by key (one
\* batch per key that has an accepted message, none for a key whose
\* messages were all skipped): while the loop runs, the batches handed over
\* followed by the buffer are those groups; at every moment they are a
\* prefix of them; after the end of the stream they are all of them.
C1_BatchesAreGroups ==
    pc # "setup" /\ Contiguous(grbs) =>
        /\ IsPrefix(flushed, Groups(AcceptedMsgs))
        /\ pc = "loop" =>
              flushed \o (IF timestep_buffer = <<>> THEN <<>> ELSE <<timestep_buffer>>)
                  = Groups(AcceptedMsgs)
        /\ pc = "done" => flushed = Groups(AcceptedMsgs)

\* A finished run of preprocess.py over a contiguous stream of three
\* messages of which one was skipped and the others went into two batches.
C1_Witness ==
    /\ pc = "done" /\ variant = "preprocess"
    /\ Contiguous(grbs) /\ Len(grbs) = 3
    /\ Len(AcceptedMsgs) = 2 /\ Len(flushed) = 2

\* C2: no message before the second one triggers a flush, and the first
\* accepted message becomes the current key and the buffer; the batch
\* processor never gets an empty buffer; a run that accepted no message
\* flushed nothing; the end of the stream flushes a non-empty buffer exactly
\* once: it hands over that buffer and nothing else.
C2_NoEmptyFlush ==
    /\ \A n \in 1..Len(flushed) : flushed[n] # <<>>
    /\ pc = "loop" /\ Len(grbs) <= 1 => flushed = <<>>
    /\ pc = "loop" /\ Len(AcceptedMsgs) = 1 =>
          /\ current_time_key = MsgKey(AcceptedMsgs[1])
          /\ timestep_buffer = AcceptedMsgs
          /\ flushed = <<>>
    /\ pc # "setup" /\ AcceptedMsgs = <<>> => flushed = <<>>

C2_FinalFlushOnce ==
    pc = "loop" /\ pc' # "loop" /\ exc' # "read" =>
        flushed' = IF timestep_buffer # <<>> THEN Append(flushed, timestep_buffer)
                   ELSE flushed

C2_FlushDiscipline == [](C2_NoEmptyFlush) /\ [][C2_FinalFlushOnce]_vars

\* A run whose only message set the key without a flush and was flushed
\* once, at the end of the stream.
C2_Witness ==
    /\ pc = "done" /\ Len(grbs) = 1
    /\ flushed = <<timestep_buffer>> /\ timestep_buffer = grbs

ShapeMatches(grb) ==
    (IF variant = "details" THEN SmallShape(grb.values.shape) ELSE grb.values.shape)
        = iso_map.shape

C4_MismatchSkipped ==
    pc # "setup" =>
        /\ \A i \in 1..Len(timestep_buffer) : ShapeMatches(timestep_buffer[i])
        /\ \A n \in 1..Len(flushed) :
              \A i \in 1..Len(flushed[n]) : ShapeMatches(flushed[n][i])
        /\ current_time_key # None =>
              \E i \in 1..Len(grbs) :
                  ShapeMatches(grbs[i]) /\ MsgKey(grbs[i]) = current_time_key

\* C8: when the run of process_country_details.py has ended, by the end of
\* the stream or by an exception, every target it opened is closed.
C8_TargetsReleased ==
    Terminal /\ variant = "details" => open_files \subseteq closed

\* A run that ended by an exception of the batch processor with targets
\* open.
C8_Witness ==
    /\ pc = "aborted" /\ variant = "details" /\ exc = "batch"
    /\ open_files # {} /\ closed = open_files

-----------------------------------------------------------------------------
(* Properties of the emitted rows.                                         *)

IsDataLine(l) == "line" \notin DOMAIN l

\* The lines a step appended to the file of region c.
NewLines(c) ==
    SubSeq(files'[c], (IF c \in DOMAIN files THEN Len(files[c]) ELSE 0) + 1,
           Len(files'[c]))

\* The rows a step emitted, each as its variable code and its timestep.
\* preprocess.py writes date and step, process_global_averages.py year and
\* month, process_country_details.py year and month.
NewRows ==
    CASE variant = "preprocess" ->
            {[variable |-> all_results'[i].variable,
              year |-> all_results'[i].date.year, month |-> all_results'[i].date.month,
              step |-> all_results'[i].step] :
                 i \in (Len(all_results) + 1)..Len(all_results')}
      [] variant = "global" ->
            {[variable |-> all_results'[i].variable,
              year |-> all_results'[i].year, month |-> all_results'[i].month] :
                 i \in (Len(all_results) + 1)..Len(all_results')}
      [] variant = "details" ->
            UNION {{[variable |-> NewLines(c)[i].var,
                     year |-> NewLines(c)[i].year, month |-> NewLines(c)[i].month] :
                        i \in {j \in 1..Len(NewLines(c)) : IsDataLine(NewLines(c)[j])}} :
                   c \in DOMAIN files'}

\* The RegionMap has a cell that is assigned to a region.
HasLand == \E k \in 1..Len(iso_map.data) : iso_map.data[k] # "XXX"

\* C6, for every step that hands a batch to the batch processor.  The
\* batch holds both wind components: no row of the step carries '10u' or
\* '10v', every '10si' row carries the batch's timestep, and '10si' rows
\* are emitted (the values of these streams are all valid, so they are
\* whenever the map has land and the processor does not raise).  The batch
\* holds one component: no '10si' row, and rows under the component's own
\* code.  The batch holds neither: no '10si' row.
C6_Step ==
    flushed' # flushed =>
        LET b == flushed'[Len(flushed')]
            names == {b[i].shortName : i \in 1..Len(b)}
            wind == names \cap {"10u", "10v"}
            codes == {r.variable : r \in NewRows}
            emits == exc' = "none" /\ HasLand
        IN  /\ Cardinality(wind) = 2 =>
                /\ codes \cap {"10u", "10v"} = {}
                /\ emits => "10si" \in codes
                /\ \A r \in NewRows :
                      r.variable = "10si" =>
                          /\ \A i \in 1..Len(b) :
                                /\ r.year = b[i].validDate.year
                                /\ r.month = b[i].validDate.month
                                /\ variant = "preprocess" => r.step = b[i].step
            /\ Cardinality(wind) = 1 =>
                /\ "10si" \notin codes
                /\ emits => wind \subseteq codes
            /\ wind = {} => "10si" \notin codes

C6_WindDerivation == [][C6_Step]_vars

\* Both kinds of batch were processed in one run: the first held one wind
\* component, the second both.
C6_Witness ==
    /\ pc = "done" /\ Len(flushed) = 2 /\ HasLand
    /\ {flushed[1][i].shortName : i \in 1..Len(flushed[1])} = {"10u"}
    /\ {flushed[2][i].shortName : i \in 1..Len(flushed[2])} = {"10u", "10v"}

\* The region codes that the run has emitted: those of its rows, or those
\* of its per-region files.
EmittedRegions ==
    CASE variant = "preprocess" -> {all_results[i].country : i \in 1..Len(all_results)}
      [] variant = "global" -> {all_results[i].country_code : i \in 1..Len(all_results)}
      [] variant = "details" -> DOMAIN files

\* The polygons that contain cell k of the RegionMap's grid.
CellPolygons(k) ==
    LET lon == IF variant = "details" THEN iso_map.lons[k] ELSE grid.lons[k]
        lat == IF variant = "details" THEN iso_map.lats[k] ELSE grid.lats[k]
    IN  {c \in countries_gdf :
            <<(IF lon > 180 THEN lon - 360 ELSE lon), lat>> \in c.geometry}

\* C10 as stated: in every variant a cell in no polygon, or in a polygon
\* that carries '-99', is 'XXX' in the map, and no emitted row or file
\* carries 'XXX' or '-99'.
C10_SentinelUnassignedEverywhere ==
    pc # "setup" =>
        /\ \A k \in 1..Len(iso_map.data) :
              (\/ CellPolygons(k) = {}
               \/ \E c \in CellPolygons(k) : (c.ISO_A3 = "-99" \/ c.ADM0_A3 = "-99"))
                  => iso_map.data[k] = "XXX"
        /\ EmittedRegions \cap {"XXX", "-99"} = {}

\* C10 as amended: in the map a script builds, a cell in no polygon is
\* 'XXX'; preprocess.py, which reads ISO_A3, also makes a cell 'XXX' whose
\* polygon has ISO_A3 '-99'; the other two scripts read ADM0_A3 and keep
\* the code of the polygon whatever it is.  No emitted row or file carries
\* 'XXX', and none of preprocess.py carries '-99'.
C10_UnassignedNeverEmitted ==
    pc # "setup" =>
        /\ built =>
             \A k \in 1..Len(iso_map.data) :
                 /\ CellPolygons(k) = {} => iso_map.data[k] = "XXX"
                 /\ \A c \in CellPolygons(k) :
                       iso_map.data[k] =
                          IF variant = "preprocess"
                          THEN (IF c.ISO_A3 = "-99" THEN "XXX" ELSE c.ISO_A3)
                          ELSE c.ADM0_A3
        /\ "XXX" \notin EmittedRegions
        /\ variant = "preprocess" => "-99" \notin EmittedRegions

\* preprocess.py saved rows for a grid that has a cell in no polygon and a
\* cell in a polygon with ISO_A3 '-99'.
C10_Witness ==
    /\ pc = "done" /\ variant = "preprocess" /\ saved
    /\ \E k \in 1..Len(iso_map.data) : CellPolygons(k) = {}
    /\ \E k \in 1..Len(iso_map.data) : \E c \in CellPolygons(k) : c.ISO_A3 = "-99"

-----------------------------------------------------------------------------
(* Properties of the aggregation.                                          *)

\* Cell i of the message's source values is valid: not masked, not
\* not-a-number, not the message's declared missing value.
SourceValid(grb, i) ==
    /\ ~grb.values.mask[i]
    /\ ~IsNaN(grb.values.data[i])
    /\ grb.missingValue # <<>> /\ ~IsNaN(grb.missingValue[1]) =>
          grb.values.data[i].x # grb.missingValue[1].x

\* The valid cells of region c for the variable code of an emitted row, and
\* the variable's value at a valid cell: the wind speed from both
\* components, the snow depth clamped, any other variable as it is.
ValidCells(b, code, c) ==
    {i \in 1..Len(iso_map.data) :
        /\ iso_map.data[i] = c
        /\ IF code = "10si"
           THEN SourceValid(DictGet(b, "10u"), i) /\ SourceValid(DictGet(b, "10v"), i)
           ELSE SourceValid(DictGet(b, code), i)}
ValueAt(b, code, i) ==
    IF code = "10si"
    THEN Hypot(DictGet(b, "10u").values.data[i].x, DictGet(b, "10v").values.data[i].x)
    ELSE LET x == DictGet(b, code).values.data[i].x
         IN  IF code = "sde" /\ x < 0 THEN 0 ELSE x

RECURSIVE SumValues(_, _, _)
SumValues(b, code, S) ==
    IF S = {} THEN 0
    ELSE LET i == CHOOSE i \in S : TRUE
         IN  ValueAt(b, code, i) + SumValues(b, code, S \ {i})

\* C5, for the batch of a finished run of preprocess.py or
\* process_global_averages.py: every emitted row is for a region that has a
\* valid cell for the row's variable, and its value is the mean of the
\* region's valid cells and of no other cell.
C5_OnlyValidCellsAveraged ==
    pc = "done" /\ variant # "details" /\ Len(flushed) = 1 =>
        \A n \in 1..Len(all_results) :
            LET r == all_results[n]
                c == IF variant = "preprocess" THEN r.country ELSE r.country_code
                cells == ValidCells(flushed[1], r.variable, c)
            IN  /\ cells # {}
                /\ r.value = [k |-> "mean", sum |-> SumValues(flushed[1], r.variable, cells),
                              n |-> Cardinality(cells)]

-----------------------------------------------------------------------------
(* Properties of repeated runs.                                            *)

\* C7, the files: every per-region file is one header line followed by
\* data lines only.
C7_FileShape ==
    \A c \in DOMAIN files :
        /\ files[c] # <<>>
        /\ files[c][1] = HeaderLine
        /\ \A i \in 2..Len(files[c]) : IsDataLine(files[c][i])

\* C7, the steps of a run: a target is opened by a write to it (lazily) and
\* stays open; lines go to open targets only; a header is written only to a
\* target that did not exist.
C7_WriteStep ==
    run' = run =>
        /\ open_files \subseteq open_files'
        /\ \A c \in DOMAIN files' :
              /\ c \in open_files' \ open_files =>
                    \E i \in 1..Len(NewLines(c)) : IsDataLine(NewLines(c)[i])
              /\ NewLines(c) # <<>> => c \in open_files'
              /\ c \in DOMAIN files =>
                    \A i \in 1..Len(NewLines(c)) : IsDataLine(NewLines(c)[i])

C7_HeaderOnce == [](C7_FileShape) /\ [][C7_WriteStep]_vars

\* A second run has appended to a file that an earlier run created: the
\* file holds its header and the rows of both runs.
C7_Witness ==
    /\ run = 2 /\ pc = "done" /\ variant = "details"
    /\ \E c \in open_files : Len(files[c]) >= 4

\* The map the running script builds from the grid of this run.
FreshMap ==
    CASE variant = "preprocess" -> create_country_mapping_iso(grid)
      [] variant = "global" -> create_country_mapping_adm(grid)
      [] variant = "details" -> create_downsampled_map(grid)

\* C9: in every run, the RegionMap in use equals the map freshly built from
\* the coordinates of that run's grid.
C9_CachedMapIsFreshMap == pc # "setup" => iso_map = FreshMap

-----------------------------------------------------------------------------
(* Batches with several messages of one variable code.                     *)

\* The bound of the specification below: the messages of one stream.
MaxDup == 3

\* A grid whose first, second and last cells lie in one region, and a
\* second field with other values in every cell of the region.
GridD == [shape |-> Wide, lats |-> <<0, 0, 0, 0, 0, 0>>,
          lons |-> <<10, 11, 190, 190, 190, 11>>]
OtherField == Array(Wide, <<Num(1), Num(2), Num(0), Num(0), Num(0), Num(5)>>)
DupMessages ==
    {Message(k, n, v, <<>>) : k \in StreamKeys, n \in {"10u", "10v"},
                              v \in {WideField, OtherField}}

DupSetup == SetupOn({GridD})

DupRead ==
    /\ pc = "loop"
    /\ Len(grbs) < MaxDup
    /\ \E grb \in DupMessages : LoopBody(grb)

NextDup == DupSetup \/ DupRead \/ EndOfStream

SpecDup == Init /\ [][NextDup]_vars

\* The messages of a batch that are the last of their variable code.
LastPerCode(b) ==
    LET last(i) == \A j \in (i + 1)..Len(b) : b[j].shortName # b[i].shortName
        F[i \in 0..Len(b)] ==
            IF i = 0 THEN <<>>
            ELSE IF last(i) THEN Append(F[i - 1], b[i]) ELSE F[i - 1]
    IN  F[Len(b)]

\* The rows of a table from position n on, and the lines of a set of
\* files, each with its region.
RowsFrom(rows, n) == {rows[i] : i \in (n + 1)..Len(rows)}
FileLines(fls) == UNION {{<<c, fls[c][i]>> : i \in 1..Len(fls[c])} : c \in DOMAIN fls}
LineCount(fls) == Cardinality(UNION {{<<c, i>> : i \in 1..Len(fls[c])} : c \in DOMAIN fls})

\* The number of records a step emitted, and the (region code, variable
\* code) pairs they carry.
NewRecordCount ==
    IF variant = "details"
    THEN Cardinality(UNION {{<<c, i>> : i \in {j \in 1..Len(NewLines(c)) :
                                                     IsDataLine(NewLines(c)[j])}} :
                            c \in DOMAIN files'})
    ELSE Len(all_results') - Len(all_results)
NewRegionCodePairs ==
    CASE variant = "preprocess" ->
            {<<r.country, r.variable>> : r \in RowsFrom(all_results', Len(all_results))}
      [] variant = "global" ->
            {<<r.country_code, r.variable>> : r \in RowsFrom(all_results', Len(all_results))}
      [] variant = "details" ->
            UNION {{<<c, NewLines(c)[i].var>> :
                        i \in {j \in 1..Len(NewLines(c)) : IsDataLine(NewLines(c)[j])}} :
                   c \in DOMAIN files'}
NewCellCodeTriples ==
    UNION {{<<c, NewLines(c)[i].var, NewLines(c)[i].lat, NewLines(c)[i].lon>> :
                i \in {j \in 1..Len(NewLines(c)) : IsDataLine(NewLines(c)[j])}} :
           c \in DOMAIN files'}

\* C11 as stated, for every step that hands a batch to the batch processor
\* of any of the three scripts: the batch yields at most one record per
\* (region code, variable code) pair.
C11_OneRecordPerPairStep ==
    flushed' # flushed /\ exc' = "none" =>
        NewRecordCount = Cardinality(NewRegionCodePairs)
C11_OneRecordPerRegionAndCode == [][C11_OneRecordPerPairStep]_vars

\* C11, amended, for every step that hands a batch to the batch processor:
\* the records of the step are those of the batch without the messages
\* that a later message of the batch repeats the variable code of (only
\* the last message of a code is aggregated, the earlier ones contribute
\* to no record); preprocess.py and process_global_averages.py emit at
\* most one record per (region code, variable code) pair and
\* process_country_details.py at most one row per (region code, variable
\* code, cell).
C11_Step ==
    flushed' # flushed /\ exc' = "none" =>
        LET b == flushed'[Len(flushed')]
            r == Process(LastPerCode(b))
        IN  /\ ~r.raised
            /\ RowsFrom(all_results', Len(all_results))
                  = RowsFrom(r.all_results, Len(all_results))
            /\ Len(all_results') = Len(r.all_results)
            /\ FileLines(files') = FileLines(r.fs.files)
            /\ LineCount(files') = LineCount(r.fs.files)
            /\ IF variant = "details"
               THEN NewRecordCount = Cardinality(NewCellCodeTriples)
               ELSE NewRecordCount = Cardinality(NewRegionCodePairs)
C11_LastMessageOfCodeWins == [][C11_Step]_vars

\* A finished run flushed a batch that holds two messages of one variable
\* code with different values, and records were emitted.
C11_Witness ==
    /\ pc = "done"
    /\ all_results # <<>> \/ DOMAIN files # {}
    /\ \E n \in 1..Len(flushed) :
          \E i, j \in 1..Len(flushed[n]) :
              /\ i < j
              /\ flushed[n][i].shortName = flushed[n][j].shortName
              /\ flushed[n][i].values # flushed[n][j].values
====
